---------------------------- MODULE Spec2Model ----------------------------
(***************************************************************************)
(* A model of print-big-text-rs: the glyph-table loader of                 *)
(* src/src/character_maps.rs and the BigText renderer of src/src/lib.rs.   *)
(*                                                                         *)
(* A Rust String / &str is a TLA+ string; a char is a string of length 1.  *)
(* A CharacterMap (HashMap<char, [String; 5]>) is a function from a finite *)
(* set of chars to 5-tuples of strings.  Rust row indices 0..4 are the     *)
(* tuple indices 1..5.                                                     *)
(*                                                                         *)
(* A JSON text is modelled by its parse tree:                              *)
(*   [t |-> "invalid"]                       not JSON at all               *)
(*   [t |-> "num"]                           a JSON number                 *)
(*   [t |-> "str", s |-> "..."]              a JSON string                 *)
(*   [t |-> "arr", elems |-> <<...>>]        a JSON array                  *)
(*   [t |-> "obj", entries |-> << <<k, v>>, ... >>]  a JSON object, its    *)
(*                                           members in source order       *)
(***************************************************************************)
EXTENDS Naturals, Sequences, FiniteSets, TLC

VARIABLES
    LETTERS,        \* static LETTERS: the embedded letters.json
    DIGITS,         \* static DIGITS: the embedded digits.json
    PUNCTUATION,    \* static PUNCTUATION: the embedded punctuation.json
    WHITESPACE,     \* static WHITESPACE: the embedded whitespace.json
    printer,        \* the BigText instance (NoPrinter where none is built)
    call            \* the last call: operation, argument, the instance
                    \* before it, what it returned, the sink it wrote to

statics == <<LETTERS, DIGITS, PUNCTUATION, WHITESPACE>>
vars == <<LETTERS, DIGITS, PUNCTUATION, WHITESPACE, printer, call>>

-----------------------------------------------------------------------------
(* Bounds of the model *)

\* longest text given to new / set_text
MaxLen == 2
\* largest capacity of a sink that eventually rejects a write
MaxBudget == 14
\* most members of a JSON object given to from_json
MaxEntries == 2
\* longest JSON array given as a member's value
MaxArr == 6

(* Program constants *)

\* rows of a glyph: [String; 5], for row in 0..5
NumRows == 5

-----------------------------------------------------------------------------
(* Results *)

Ok(v) == [tag |-> "Ok", val |-> v]
Err(e) == [tag |-> "Err", val |-> e]
Panic(e) == [tag |-> "Panic", val |-> e]

\* Result::unwrap: the value, or a panic carrying the error
unwrap(r) == IF r.tag = "Ok" THEN r ELSE Panic(r.val)

Min(a, b) == IF a < b THEN a ELSE b

\* the chars of a string, as a set
RECURSIVE CharsOf(_)
CharsOf(s) == IF s = "" THEN {} ELSE {Head(s)} \cup CharsOf(Tail(s))

-----------------------------------------------------------------------------
(* character_maps.rs: the loader *)

EmptyMap == <<>>

\* HashMap::insert: the new value replaces an old one under the same key
insert(m, k, v) ==
    [c \in DOMAIN m \cup {k} |-> IF c = k THEN v ELSE m[c]]

\* serde's char from a JSON object key: a string of exactly one char
DeserializeKey(k) ==
    IF Len(k) = 1 THEN Ok(k) ELSE Err("invalid value: expected a character")

\* DeserializeRows, were a short array filled up with blank rows
DeserializeRows_Pad(v) ==
    IF v.t # "arr" THEN Err("invalid type: expected an array of length 5")
    ELSE LET n == Len(v.elems) IN
         IF \E i \in 1..Min(n, NumRows) : v.elems[i].t # "str"
         THEN Err("invalid type: expected a string")
         ELSE IF n > NumRows THEN Err("trailing characters")
         ELSE Ok([i \in 1..NumRows |-> IF i <= n THEN v.elems[i].s ELSE "     "])

\* serde's [String; 5] from a JSON value: an array of exactly 5 strings
DeserializeRows(v) ==
    IF v.t # "arr" THEN Err("invalid type: expected an array of length 5")
    ELSE LET n == Len(v.elems) IN
         IF \E i \in 1..Min(n, NumRows) : v.elems[i].t # "str"
         THEN Err("invalid type: expected a string")
         ELSE IF n < NumRows THEN Err("invalid length")
         ELSE IF n > NumRows THEN Err("trailing characters")
         ELSE Ok([i \in 1..NumRows |-> v.elems[i].s])

\* serde's HashMap from the members of a JSON object, in source order: the
\* first member that fails ends the load, a repeated key overwrites
RECURSIVE DeserializeMap(_, _, _)
DeserializeMap(entries, i, acc) ==
    IF i > Len(entries) THEN Ok(acc)
    ELSE LET k == DeserializeKey(entries[i][1]) IN
         IF k.tag # "Ok" THEN k
         ELSE LET rows == DeserializeRows(entries[i][2]) IN
              IF rows.tag # "Ok" THEN rows
              ELSE DeserializeMap(entries, i + 1, insert(acc, k.val, rows.val))

\* serde_json::from_str::<CharacterMap>(s)
from_str(s) ==
    IF s.t = "invalid" THEN Err("syntax error")
    ELSE IF s.t # "obj" THEN Err("invalid type: expected a map")
    ELSE DeserializeMap(s.entries, 1, EmptyMap)

\* fn from_json(map_data: &str) -> Result<CharacterMap>
from_json(map_data) == from_str(map_data)


\* extend, were a key already present kept (entry().or_insert())
extend_KeepFirst(m, other) ==
    [c \in DOMAIN m \cup DOMAIN other |->
        IF c \in DOMAIN m THEN m[c] ELSE other[c]]

\* HashMap::extend: every entry of other is inserted, replacing on a shared key
extend(m, other) ==
    [c \in DOMAIN m \cup DOMAIN other |->
        IF c \in DOMAIN other THEN other[c] ELSE m[c]]

\* pub fn ascii_letters() -> CharacterMap: serde_json::from_str(LETTERS).unwrap()
ascii_letters == unwrap(from_str(LETTERS))

\* digits, were the error swallowed (unwrap_or_default())
digits_OrDefault ==
    LET r == from_json(DIGITS) IN IF r.tag = "Ok" THEN r ELSE Ok(EmptyMap)

\* pub fn digits() -> CharacterMap
digits == unwrap(from_json(DIGITS))

\* pub fn punctuation() -> CharacterMap
punctuation == unwrap(from_json(PUNCTUATION))

\* pub fn whitespace() -> CharacterMap
whitespace == unwrap(from_json(WHITESPACE))

\* pub fn printables() -> CharacterMap: the four tables extended in order; a
\* panic of a category loader unwinds through it
printables ==
    LET l == ascii_letters IN
    IF l.tag # "Ok" THEN l ELSE
    LET d == digits IN
    IF d.tag # "Ok" THEN d ELSE
    LET p == punctuation IN
    IF p.tag # "Ok" THEN p ELSE
    LET w == whitespace IN
    IF w.tag # "Ok" THEN w ELSE
    Ok(extend(extend(extend(extend(EmptyMap, l.val), d.val), p.val), w.val))

-----------------------------------------------------------------------------
(* lib.rs: BigText *)

NoPrinter == [none |-> TRUE]

\* Option<CharacterMap>
None == [some |-> FALSE]
Some(v) == [some |-> TRUE, val |-> v]

\* HashMap::keys: every key once, in an order the hasher picks; the set of
\* the orders an iteration can take, each as the string of the keys met
RECURSIVE keys(_)
keys(S) ==
    IF S = {} THEN {""}
    ELSE UNION {{c \o rest : rest \in keys(S \ {c})} : c \in S}

\* fn get_supported_characters(map: &CharacterMap) -> String: every key
\* pushed in iteration order; the set of the strings it can return
get_supported_characters(map) == keys(DOMAIN map)

\* pub fn new(text: &str, character_map: Option<CharacterMap>) -> Self:
\* the set of its outcomes (one per iteration order, or the panic of
\* printables())
BigText_new(text, character_map) ==
    LET cm == IF character_map.some THEN Ok(character_map.val) ELSE printables
    IN  IF cm.tag # "Ok" THEN {cm}
        ELSE {Ok([text |-> text,
                  supported_characters |-> s,
                  character_map |-> cm.val]) :
                  s \in get_supported_characters(cm.val)}

\* pub fn text(&self) -> &str
BigText_text(self) == self.text

\* pub fn supported_characters(&self) -> &str
BigText_supported_characters(self) == self.supported_characters

\* pub fn character_map(&self) -> &CharacterMap
BigText_character_map(self) == self.character_map

\* the reference set_text returns: the instance it was called on
SelfRef == "&mut self"

\* set_text, were the text appended (push_str)
BigText_set_text_Append(self, text) ==
    [self |-> [self EXCEPT !.text = @ \o text], ret |-> SelfRef]

\* pub fn set_text(&mut self, text: &str) -> &mut Self
BigText_set_text(self, text) ==
    [self |-> [self EXCEPT !.text = text], ret |-> SelfRef]

\* set_character_map, were supported_characters not reset
BigText_set_character_map_Stale(self, character_map) ==
    {[self EXCEPT !.character_map = character_map]}

\* pub fn set_character_map(&mut self, character_map: CharacterMap): the set
\* of the instances it can leave (one per iteration order of the new keys)
BigText_set_character_map(self, character_map) ==
    {[self EXCEPT !.character_map = character_map,
                  !.supported_characters = s] :
        s \in get_supported_characters(character_map)}

-----------------------------------------------------------------------------
(* The sink: any std::io::Write.  A limited sink takes budget more chars and
   rejects the write that would exceed it, having taken what still fitted.
   rejected counts the writes it rejected, late the writes issued to it after
   it had rejected one. *)

NewSink(limited, budget) ==
    [buf |-> "", limited |-> limited, budget |-> budget,
     rejected |-> 0, late |-> 0]

NoStream == [none |-> TRUE]

\* Write::write_all: an empty buffer issues no write at all
write_all(stream, s) ==
    IF s = "" THEN [stream |-> stream, ok |-> TRUE]
    ELSE LET st == [stream EXCEPT
                      !.late = IF stream.rejected > 0 THEN @ + 1 ELSE @] IN
         IF ~st.limited
         THEN [stream |-> [st EXCEPT !.buf = @ \o s], ok |-> TRUE]
         ELSE IF Len(s) <= st.budget
         THEN [stream |-> [st EXCEPT !.buf = @ \o s,
                                     !.budget = @ - Len(s)],
               ok |-> TRUE]
         ELSE [stream |-> [st EXCEPT !.buf = @ \o SubSeq(s, 1, st.budget),
                                     !.budget = 0,
                                     !.rejected = @ + 1],
               ok |-> FALSE]

\* write!(stream, ...): the pieces of the format string written in order,
\* ending at the first piece the sink rejects
RECURSIVE write_fmt(_, _)
write_fmt(stream, pieces) ==
    IF pieces = <<>> THEN [stream |-> stream, ok |-> TRUE]
    ELSE LET r == write_all(stream, Head(pieces)) IN
         IF r.ok THEN write_fmt(r.stream, Tail(pieces)) ELSE r

\* the glyph row, were the separator left out
PrintGlyph_NoSeparator(stream, arr, row) == write_fmt(stream, <<arr[row]>>)

\* Some(arr) => write!(stream, "{} ", arr[row])
PrintGlyph(stream, arr, row) == write_fmt(stream, <<arr[row], " ">>)

\* the blank, were it the 5 spaces of a blank glyph row
PrintBlank_FiveSpaces(stream) == write_fmt(stream, <<"     ">>)

\* None => write!(stream, "      ")
PrintBlank(stream) == write_fmt(stream, <<"      ">>)

\* the end of a row, were the newline left out
PrintNewline_Missing(stream) == write_fmt(stream, <<>>)

\* write!(stream, "\n")
PrintNewline(stream) == write_fmt(stream, <<"\n">>)

\* the write!s, were their results dropped
Try_Ignore(r) == TRUE

\* the ? after each write!: go on only when the write succeeded
Try(r) == r.ok

\* for col in self.text().chars() { ... }
RECURSIVE PrintCols(_, _, _, _)
PrintCols(self, row, cols, stream) ==
    IF cols = "" THEN [stream |-> stream, ok |-> TRUE]
    ELSE LET col == Head(cols)
             r == IF col \in DOMAIN self.character_map
                  THEN PrintGlyph(stream, self.character_map[col], row)
                  ELSE PrintBlank(stream)
         IN  IF Try(r) THEN PrintCols(self, row, Tail(cols), r.stream) ELSE r

\* for row in 0..5 { ...; write!(stream, "\n")?; }
RECURSIVE PrintRows(_, _, _)
PrintRows(self, row, stream) ==
    IF row > NumRows THEN [stream |-> stream, ok |-> TRUE]
    ELSE LET c == PrintCols(self, row, BigText_text(self), stream) IN
         IF ~Try(c) THEN c
         ELSE LET n == PrintNewline(c.stream) IN
              IF ~Try(n) THEN n ELSE PrintRows(self, row + 1, n.stream)

\* pub fn print(&self, stream: Option<&mut dyn Write>) -> Result<(), Error>
BigText_print(self, stream) ==
    LET r == PrintRows(self, 1, stream) IN
    [stream |-> r.stream,
     ret |-> IF r.ok THEN Ok("()") ELSE Err("io::Error")]

-----------------------------------------------------------------------------
(* Data *)

\* JSON values
JStr(s) == [t |-> "str", s |-> s]
JNum == [t |-> "num"]
JArr(elems) == [t |-> "arr", elems |-> elems]
JObj(entries) == [t |-> "obj", entries |-> entries]
JInvalid == [t |-> "invalid"]

\* a glyph as the JSON array of its rows
JGlyph(g) == JArr([i \in 1..Len(g) |-> JStr(g[i])])

\* 'A' of letters.json, as tests/print-big-text.rs test_print prints it
GlyphA == <<" *** ", "*   *", "*****", "*   *", "*   *">>
\* '1' of digits.json and '?' of punctuation.json, as the doc test of
\* BigText::print prints them
Glyph1 == <<"    *", "    *", "    *", "    *", "    *">>
GlyphQuestion == <<"**** ", "    *", "  ** ", "     ", "  *  ">>
\* ' ' of whitespace.json
GlyphSpace == <<"     ", "     ", "     ", "     ", "     ">>

\* the embedded sources, cut down to the glyphs the tests show
BuiltinLetters == JObj(<< <<"A", JGlyph(GlyphA)>> >>)
BuiltinDigits == JObj(<< <<"1", JGlyph(Glyph1)>> >>)
BuiltinPunctuation == JObj(<< <<"?", JGlyph(GlyphQuestion)>> >>)
BuiltinWhitespace == JObj(<< <<" ", JGlyph(GlyphSpace)>> >>)

\* the glyph of the unit tests: five empty rows
GlyphEmpty == <<"", "", "", "", "">>
\* a glyph 4 wide, and one whose rows differ in width
GlyphNarrow == <<"*  *", "* **", "****", "*   ", "*   ">>
GlyphRagged == <<"=", "", "==", "#######", " ">>

\* a char outside ASCII, U+00E9; a Rust char is one scalar value whatever its
\* UTF-8 length, and it is written here as one 7-bit char because TLC's state
\* files keep no others
EAcute == "e"

\* the tables a caller builds by hand
TestMap == [c \in {"A", "1", "\""} |-> GlyphEmpty]
NarrowMap == [c \in {"A"} |-> GlyphNarrow]
RaggedMap == [c \in {"A", EAcute} |-> IF c = "A" THEN GlyphNarrow ELSE GlyphRagged]
CustomMaps == {EmptyMap, TestMap, NarrowMap, RaggedMap}

\* the chars of the texts, and the texts
TextChars == {"A", EAcute}
RECURSIVE StringsUpTo(_)
StringsUpTo(n) ==
    IF n = 0 THEN {""}
    ELSE LET S == StringsUpTo(n - 1) IN S \cup {s \o c : s \in S, c \in TextChars}
Texts == StringsUpTo(MaxLen)

\* the sinks a caller passes: one that takes everything (a Vec), and the
\* ones that reject the write exceeding their capacity
Sinks == {NewSink(FALSE, 0)} \cup {NewSink(TRUE, b) : b \in 0..MaxBudget}

\* the tables a caller can pass: built by hand, or loaded
Tables ==
    CustomMaps \cup {r.val : r \in {x \in {printables, digits} : x.tag = "Ok"}}

-----------------------------------------------------------------------------
(* The renderer as a state machine *)

Call(op, arg, before, ret, stream) ==
    [op |-> op, arg |-> arg, before |-> before, ret |-> ret, stream |-> stream]

\* the instance after BigText::new(text, character_map)
Init ==
    /\ LETTERS = BuiltinLetters
    /\ DIGITS = BuiltinDigits
    /\ PUNCTUATION = BuiltinPunctuation
    /\ WHITESPACE = BuiltinWhitespace
    /\ \E t \in Texts, cm \in {None} \cup {Some(m) : m \in CustomMaps} :
         \E r \in BigText_new(t, cm) :
            /\ r.tag = "Ok"
            /\ printer = r.val
            /\ call = Call("new", <<t, cm>>, NoPrinter, r, NoStream)

\* printer.set_text(text)
SetText ==
    \E t \in Texts :
       LET r == BigText_set_text(printer, t) IN
       /\ printer' = r.self
       /\ call' = Call("set_text", t, printer, r.ret, NoStream)
       /\ UNCHANGED statics

\* printer.set_character_map(character_map)
SetCharacterMap ==
    \E m \in Tables :
       \E p \in BigText_set_character_map(printer, m) :
          /\ printer' = p
          /\ call' = Call("set_character_map", m, printer, "()", NoStream)
          /\ UNCHANGED statics

\* print, were the text taken out of the instance as it is written
PrintTo_Drain ==
    \E s \in Sinks :
       LET r == BigText_print(printer, s) IN
       /\ printer' = [printer EXCEPT !.text = ""]
       /\ call' = Call("print", s, printer, r.ret, r.stream)
       /\ UNCHANGED statics

\* printer.print(Some(&mut stream))
PrintTo ==
    \E s \in Sinks :
       LET r == BigText_print(printer, s) IN
       /\ printer' = printer
       /\ call' = Call("print", s, printer, r.ret, r.stream)
       /\ UNCHANGED statics

Next == SetText \/ SetCharacterMap \/ PrintTo

Spec == Init /\ [][Next]_vars

-----------------------------------------------------------------------------
(* The loader as a state machine *)

\* the keys and the values of the members of a JSON object given to the loader
JsonKeys == {"", "A", "1", "AB"}
JRows(n) == JArr([i \in 1..n |-> JStr(IF i <= NumRows THEN GlyphNarrow[i] ELSE "+")])
JsonValues ==
    {JRows(n) : n \in 0..MaxArr}
        \cup {JGlyph(GlyphRagged),
              JArr(<<JStr("a"), JStr("b"), JNum, JStr("d"), JStr("e")>>),
              JArr(<<JNum>>),
              JNum}
JsonEntries == {<<k, v>> : k \in JsonKeys, v \in JsonValues}
RECURSIVE EntriesUpTo(_)
EntriesUpTo(n) ==
    IF n = 0 THEN {<<>>}
    ELSE LET S == EntriesUpTo(n - 1) IN
         S \cup {Append(es, e) : es \in S, e \in JsonEntries}

\* the sources given to from_json
JsonPool ==
    {JObj(es) : es \in EntriesUpTo(MaxEntries)} \cup {JInvalid, JArr(<<>>), JNum}

\* what a build can embed as a category's source
StaticPool ==
    {JObj(<<>>),
     JObj(<< <<"A", JGlyph(GlyphA)>> >>),
     JObj(<< <<"A", JGlyph(GlyphNarrow)>>, <<"1", JGlyph(Glyph1)>> >>),
     JObj(<< <<"1", JGlyph(GlyphRagged)>> >>),
     JArr(<<>>),
     JObj(<< <<"", JGlyph(GlyphA)>> >>),
     JObj(<< <<"A", JArr(<<JStr("a"), JStr("b"), JNum, JStr("d"), JStr("e")>>)>> >>)}

\* no instance, the embedded sources as the tests show them
InitFromJson ==
    /\ LETTERS = BuiltinLetters
    /\ DIGITS = BuiltinDigits
    /\ PUNCTUATION = BuiltinPunctuation
    /\ WHITESPACE = BuiltinWhitespace
    /\ printer = NoPrinter
    /\ call = Call("none", "", NoPrinter, "()", NoStream)

\* no instance, any embedded sources
InitLoader ==
    /\ LETTERS \in StaticPool
    /\ DIGITS \in StaticPool
    /\ PUNCTUATION \in StaticPool
    /\ WHITESPACE \in StaticPool
    /\ printer = NoPrinter
    /\ call = Call("none", "", NoPrinter, "()", NoStream)

\* from_json(map_data)
FromJson(pool) ==
    \E map_data \in pool :
       /\ call' = Call("from_json", <<map_data>>, NoPrinter,
                       from_json(map_data), NoStream)
       /\ UNCHANGED <<statics, printer>>

\* character_maps::ascii_letters()
AsciiLetters ==
    /\ call' = Call("ascii_letters", <<LETTERS>>, NoPrinter, ascii_letters, NoStream)
    /\ UNCHANGED <<statics, printer>>

\* character_maps::digits()
Digits ==
    /\ call' = Call("digits", <<DIGITS>>, NoPrinter, digits, NoStream)
    /\ UNCHANGED <<statics, printer>>

\* character_maps::punctuation()
Punctuation ==
    /\ call' = Call("punctuation", <<PUNCTUATION>>, NoPrinter, punctuation, NoStream)
    /\ UNCHANGED <<statics, printer>>

\* character_maps::whitespace()
Whitespace ==
    /\ call' = Call("whitespace", <<WHITESPACE>>, NoPrinter, whitespace, NoStream)
    /\ UNCHANGED <<statics, printer>>

\* character_maps::printables()
Printables ==
    /\ call' = Call("printables", statics, NoPrinter, printables, NoStream)
    /\ UNCHANGED <<statics, printer>>

\* one call of from_json per behaviour: the function keeps no state
NextFromJson == call.op = "none" /\ FromJson(JsonPool)

SpecFromJson == InitFromJson /\ [][NextFromJson]_vars

NextLoader ==
    \/ FromJson(StaticPool)
    \/ AsciiLetters
    \/ Digits
    \/ Punctuation
    \/ Whitespace
    \/ Printables

SpecLoader == InitLoader /\ [][NextLoader]_vars

-----------------------------------------------------------------------------
(* What the claims speak of *)

\* the lines of an output: the text before each newline, and what follows
\* the last newline
RECURSIVE SplitLines(_, _, _)
SplitLines(s, cur, acc) ==
    IF s = "" THEN [lines |-> acc, rest |-> cur]
    ELSE IF Head(s) = "\n" THEN SplitLines(Tail(s), "", Append(acc, cur))
    ELSE SplitLines(Tail(s), cur \o Head(s), acc)
LinesOf(s) == SplitLines(s, "", <<>>)

\* how many newline chars an output holds
RECURSIVE Newlines(_)
Newlines(s) ==
    IF s = "" THEN 0
    ELSE (IF Head(s) = "\n" THEN 1 ELSE 0) + Newlines(Tail(s))

SixSpaces == "      "

\* what char c adds to row r under table map
Contribution(map, c, r) ==
    IF c \in DOMAIN map THEN map[c][r] \o " " ELSE SixSpaces

\* row r of text under table map
RECURSIVE ExpectedLine(_, _, _)
ExpectedLine(text, map, r) ==
    IF text = "" THEN ""
    ELSE Contribution(map, Head(text), r) \o ExpectedLine(Tail(text), map, r)

\* the whole rendering of text under table map
RECURSIVE ExpectedFrom(_, _, _)
ExpectedFrom(text, map, r) ==
    IF r > 5 THEN ""
    ELSE ExpectedLine(text, map, r) \o "\n" \o ExpectedFrom(text, map, r + 1)
ExpectedOutput(text, map) == ExpectedFrom(text, map, 1)

\* where in row r the contribution of the i-th char of text starts
RECURSIVE Offset(_, _, _, _)
Offset(text, map, r, i) ==
    IF i = 1 THEN 0
    ELSE Offset(text, map, r, i - 1)
            + Len(Contribution(map, SubSeq(text, i - 1, i - 1), r))

Printed == call.op = "print"
Accepting == Printed /\ ~call.arg.limited
Absent(i) == SubSeq(printer.text, i, i) \notin DOMAIN printer.character_map

\* C1: a render that succeeded left, as line r of its output for each of the
\* 5 rows r, the contributions of the chars of the text in their order, a
\* char of the table contributing its glyph's row r and then one space.
C1_RowsAreGlyphRowsInOrder ==
    (Printed /\ call.ret.tag = "Ok") =>
        LET out == LinesOf(call.stream.buf) IN
        /\ Len(out.lines) = 5
        /\ \A r \in 1..5 :
              out.lines[r] = ExpectedLine(printer.text, printer.character_map, r)

C1_Witness ==
    /\ Printed /\ call.ret.tag = "Ok"
    /\ printer.text = EAcute \o "A"
    /\ printer.character_map = RaggedMap
    /\ LinesOf(call.stream.buf).lines[4] = "####### *    "

\* C2: a char of the text that is no key of the table makes no render fail,
\* and in each of the 5 rows it takes exactly 6 spaces, whatever the widths
\* of the glyphs around it.
C2_AbsentCharIsSixSpaces ==
    (Accepting /\ \E i \in 1..Len(printer.text) : Absent(i)) =>
        /\ call.ret.tag = "Ok"
        /\ LET out == LinesOf(call.stream.buf) IN
           \A r \in 1..5 :
              /\ Len(out.lines[r]) =
                    Offset(printer.text, printer.character_map, r,
                           Len(printer.text) + 1)
              /\ \A i \in 1..Len(printer.text) :
                    Absent(i) =>
                       LET o == Offset(printer.text, printer.character_map, r, i)
                       IN  SubSeq(out.lines[r], o + 1, o + 6) = SixSpaces

C2_Witness ==
    /\ Accepting /\ call.ret.tag = "Ok"
    /\ printer.text = "A" \o EAcute
    /\ printer.character_map = NarrowMap
    /\ LinesOf(call.stream.buf).lines[1] = "*  *       "

\* C3: a render to a sink that takes every write succeeds and writes exactly
\* 5 lines, each ended by one newline; for the empty text it writes 5
\* newlines and nothing else.
C3_FiveLines ==
    Accepting =>
        /\ call.ret.tag = "Ok"
        /\ Newlines(call.stream.buf) = 5
        /\ Len(LinesOf(call.stream.buf).lines) = 5
        /\ LinesOf(call.stream.buf).rest = ""
        /\ (printer.text = "" => call.stream.buf = "\n\n\n\n\n")

C3_Witness ==
    /\ Accepting
    /\ printer.text = ""
    /\ printer.character_map # EmptyMap
    /\ call.stream.buf = "\n\n\n\n\n"

\* C4: in every state the supported characters hold each key of the table
\* once and nothing else; after set_character_map they are the keys of the
\* table just set.
C4_SupportedAreTheKeys ==
    /\ Len(BigText_supported_characters(printer))
          = Cardinality(DOMAIN BigText_character_map(printer))
    /\ CharsOf(BigText_supported_characters(printer))
          = DOMAIN BigText_character_map(printer)
    /\ call.op = "set_character_map" =>
          /\ BigText_character_map(printer) = call.arg
          /\ CharsOf(BigText_supported_characters(printer)) = DOMAIN call.arg

C4_Witness ==
    /\ call.op = "set_character_map"
    /\ call.arg = RaggedMap
    /\ DOMAIN call.before.character_map = {"A", "1", "\""}
    /\ BigText_supported_characters(printer) = EAcute \o "A"

\* C5: after set_text(t) the text read back is t, whatever was stored; the
\* call returns the instance, and the table and the supported characters
\* are as before.
C5_SetTextRoundTrip ==
    call.op = "set_text" =>
        /\ BigText_text(printer) = call.arg
        /\ call.ret = SelfRef
        /\ BigText_character_map(printer) = call.before.character_map
        /\ BigText_supported_characters(printer)
              = call.before.supported_characters

C5_Witness ==
    /\ call.op = "set_text"
    /\ call.arg = EAcute
    /\ call.before.text = "AA"
    /\ BigText_text(printer) = EAcute

\* C6: a render fails exactly when the sink rejected a write; it issues no
\* write after the rejected one, and what the sink took stays: a prefix of
\* the full rendering, all of it when the render succeeded.
C6_ErrorIffRejected ==
    Printed =>
        LET full == ExpectedOutput(printer.text, printer.character_map)
            buf == call.stream.buf
        IN  /\ call.ret.tag = "Err" <=> call.stream.rejected > 0
            /\ call.ret.tag \in {"Ok", "Err"}
            /\ call.stream.rejected <= 1
            /\ call.stream.late = 0
            /\ buf = SubSeq(full, 1, Len(buf))
            /\ call.ret.tag = "Ok" => buf = full
            /\ call.ret.tag = "Err" => Len(buf) = call.arg.budget

C6_Witness ==
    /\ Printed
    /\ call.ret.tag = "Err"
    /\ call.stream.rejected = 1
    /\ printer.text = "A" \o EAcute
    /\ call.stream.buf = " ***    "

\* C10: a render changes nothing of the instance, and what it writes to a
\* sink that takes every write is what an instance newly built from the
\* stored text and the stored table writes.
C10_RenderIsReadOnly ==
    Printed =>
        /\ printer = call.before
        /\ Accepting =>
              \A fresh \in BigText_new(BigText_text(printer),
                                       Some(BigText_character_map(printer))) :
                 /\ fresh.tag = "Ok"
                 /\ BigText_print(fresh.val, call.arg).stream.buf
                       = call.stream.buf

C10_Witness ==
    /\ Accepting
    /\ printer = call.before
    /\ printer.text = "AA"
    /\ printer.character_map = TestMap
    /\ call.stream.buf = "  \n  \n  \n  \n  \n"

-----------------------------------------------------------------------------
(* The claims about the loader *)

Loaded == call.op = "from_json"
Source == call.arg[1]

\* an array of fewer than 5 strings
ShortRows(v) ==
    /\ v.t = "arr"
    /\ Len(v.elems) < 5
    /\ \A i \in 1..Len(v.elems) : v.elems[i].t = "str"

\* an object whose keys are one char each and whose values are arrays of 0 to
\* 5 strings
DocumentedShape(src) ==
    /\ src.t = "obj"
    /\ \A i \in 1..Len(src.entries) :
          LET k == src.entries[i][1]
              v == src.entries[i][2]
          IN  /\ Len(k) = 1
              /\ v.t = "arr"
              /\ Len(v.elems) <= 5
              /\ \A j \in 1..Len(v.elems) : v.elems[j].t = "str"

\* the given strings at their indices, 5 spaces in the rows after them
Padded(v) ==
    [r \in 1..5 |-> IF r <= Len(v.elems) THEN v.elems[r].s ELSE "     "]

\* the last member of src under key k
LastEntry(src, k) ==
    LET last == CHOOSE i \in 1..Len(src.entries) :
                   /\ src.entries[i][1] = k
                   /\ \A j \in (i + 1)..Len(src.entries) : src.entries[j][1] # k
    IN  src.entries[last][2]

\* C7 as stated: a source of the documented shape with a member of fewer
\* than 5 strings loads, and every glyph has 5 rows, the given ones as they
\* are and blank rows of 5 spaces after them.
C7_ShortArrayIsPadded ==
    (/\ Loaded
     /\ DocumentedShape(Source)
     /\ \E i \in 1..Len(Source.entries) : ShortRows(Source.entries[i][2])) =>
        /\ call.ret.tag = "Ok"
        /\ \A i \in 1..Len(Source.entries) :
              LET k == Source.entries[i][1] IN
              /\ k \in DOMAIN call.ret.val
              /\ call.ret.val[k] = Padded(LastEntry(Source, k))

\* C7 as amended: a member of fewer than 5 strings makes the load fail with
\* an error and no table; a table that is loaded holds, for each key, the 5
\* strings of the key's last member as they are.
C7_ShortArrayIsAnError ==
    /\ (/\ Loaded
        /\ Source.t = "obj"
        /\ \E i \in 1..Len(Source.entries) : ShortRows(Source.entries[i][2])) =>
           call.ret.tag = "Err"
    /\ (Loaded /\ call.ret.tag = "Ok") =>
           \A k \in DOMAIN call.ret.val :
              LET v == LastEntry(Source, k) IN
              /\ Len(v.elems) = 5
              /\ call.ret.val[k] = [r \in 1..5 |-> v.elems[r].s]

C7_Witness ==
    /\ Loaded
    /\ Source = JObj(<< <<"A", JRows(3)>> >>)
    /\ call.ret.tag = "Err"

\* the tables of the four categories, in the order printables() takes them
Categories == <<ascii_letters, digits, punctuation, whitespace>>

\* C8: printables() holds exactly the keys of the four category tables, each
\* with the glyph of the last of letters, digits, punctuation, whitespace
\* that has the key.
C8_PrintablesIsTheUnion ==
    (call.op = "printables" /\ call.ret.tag = "Ok") =>
        LET P == call.ret.val IN
        /\ \A i \in 1..4 : Categories[i].tag = "Ok"
        /\ DOMAIN P = UNION {DOMAIN Categories[i].val : i \in 1..4}
        /\ \A c \in DOMAIN P :
              LET last == CHOOSE i \in 1..4 :
                             /\ c \in DOMAIN Categories[i].val
                             /\ \A j \in (i + 1)..4 :
                                   c \notin DOMAIN Categories[j].val
              IN  P[c] = Categories[last].val[c]

C8_Witness ==
    /\ call.op = "printables"
    /\ call.ret.tag = "Ok"
    /\ ascii_letters.val = [c \in {"A"} |-> GlyphA]
    /\ DOMAIN digits.val = {"A", "1"}
    /\ DOMAIN punctuation.val = {"1"}
    /\ call.ret.val = [c \in {"A", "1"} |->
                          IF c = "A" THEN GlyphNarrow ELSE GlyphRagged]

\* a source that is no object of arrays, or has an empty key, or an array
\* element that is no string
ViolatesShape(src) ==
    \/ src.t # "obj"
    \/ \E i \in 1..Len(src.entries) :
          LET k == src.entries[i][1]
              v == src.entries[i][2]
          IN  \/ k = ""
              \/ v.t # "arr"
              \/ \E j \in 1..Len(v.elems) : v.elems[j].t # "str"

CategoryOps == {"ascii_letters", "digits", "punctuation", "whitespace"}
LoaderOps == CategoryOps \cup {"from_json", "printables"}

\* the call read a source that violates the shape
ReadViolation ==
    /\ call.op \in LoaderOps
    /\ \E i \in 1..Len(call.arg) : ViolatesShape(call.arg[i])

\* C9 as stated: a source that violates the shape gives no table and an
\* error that the caller of the loader gets: of from_json, of a category
\* loader, of printables; never an abort inside the loader.
C9_ViolationIsReturned ==
    ReadViolation => call.ret.tag = "Err"

\* C9 as amended: from_json returns the error, and no table, to its caller;
\* a category loader and printables(), which unwrap that result, panic on a
\* violating embedded source and return nothing to their callers.
C9_ReturnedByFromJsonOnly ==
    ReadViolation =>
        IF call.op = "from_json" THEN call.ret.tag = "Err"
        ELSE call.ret.tag = "Panic"

C9_Witness ==
    /\ call.op = "digits"
    /\ DIGITS = JObj(<< <<"", JGlyph(GlyphA)>> >>)
    /\ call.ret.tag = "Panic"

=============================================================================
